---- MODULE Spec2Model ----
(***************************************************************************)
(* A model of bimg's Resize pipeline (src/resize.go) over the raster       *)
(* engine adapter (src/vips.go).                                           *)
(*                                                                         *)
(* One Resize call is followed step by step: pc is the position in the     *)
(* body of Resize, and each action is one statement group of it with all   *)
(* the calls it makes.  Raster handles are numbered 1, 2, ... in the order *)
(* the engine hands them out; refs[h] counts the g_object_unref calls on   *)
(* handle h.  Floating-point values (factor, residual) are exact rationals *)
(* <<numerator, denominator>>.                                             *)
(***************************************************************************)
EXTENDS Integers, Sequences, FiniteSets, TLC

VARIABLES
    in,        \* the call's input: buffer kind, raster size, EXIF, engine
               \* behaviour, and the options as the caller gave them
    o,         \* Options as held by Resize (mutated by defaults/normalization)
    pc,        \* position in Resize
    imageType, \* type reported by vipsRead
    image,     \* current raster handle of Resize (0 = nil)
    imgW,      \* image.Xsize
    imgH,      \* image.Ysize
    refs,      \* refs[h] = number of releases of handle h
    ops,       \* engine operations called so far, in order
    rotArg,    \* angles passed to vipsRotate
    modes,     \* resize modes that acted in transformImage/extractOrEmbedImage
    factor,    \* Resize's factor
    shrink,    \* Resize's shrink (0 before it is declared)
    residual,  \* Resize's residual
    err,       \* the error Resize returns ("" = nil)
    out,       \* TRUE when Resize returns an output buffer
    mOwner,      \* the package mutex m: the goroutine holding it (0 = unlocked)
    initialized, \* the package flag
    gpc,         \* gpc[p] = position of goroutine p in Initialize/Shutdown
    inits,       \* number of C.vips_init calls made
    shutdowns,   \* number of C.vips_shutdown calls made
    up,          \* C.vips_init calls since the last C.vips_shutdown
    libCalls     \* Initialize/Shutdown calls entered by the goroutines

\* the state of a Resize call
resizeVars == <<in, o, pc, imageType, image, imgW, imgH, refs, ops, rotArg,
                modes, factor, shrink, residual, err, out>>

\* the process-wide state of the package
libVars == <<mOwner, initialized, gpc, inits, shutdowns, up, libCalls>>

vars == <<resizeVars, libVars>>

----------------------------------------------------------------------------
(* Bounds of the model *)

MaxDim == 4

MaxReq == 4

MaxAngle == 400

(* Program constants *)

\* the hard maximum raster dimension, scaled to the rasters of the model
MAX_SIZE == 7

NIL == 0

ErrEmptyBuffer == "Image buffer is empty"

ErrFormat == "Unsupported image format"

ErrOutputType == "Unsupported image output type"

ErrExtractParams == "Extract area width/height params are required"

ErrMaxSize == "Maximum image size exceeded"

D0 == 0

D90 == 90

D180 == 180

D270 == 270

----------------------------------------------------------------------------
(* Exact arithmetic standing for float64 *)

Rat(n, d) == <<n, d>>

RLess(a, b) == a[1] * b[2] < b[1] * a[2]

RMin(a, b) == IF RLess(b, a) THEN b ELSE a

RMax(a, b) == IF RLess(a, b) THEN b ELSE a

RFloor(a) == a[1] \div a[2]

RIsZero(a) == a[1] = 0

Min(a, b) == IF a < b THEN a ELSE b

Max(a, b) == IF a > b THEN a ELSE b

\* Go's integer division and remainder truncate toward zero
GoDiv(a, b) == IF a >= 0 THEN a \div b ELSE -((-a) \div b)

GoRem(a, b) == IF a >= 0 THEN a % b ELSE -((-a) % b)

CeilDiv(a, b) == (a + b - 1) \div b

\* round(w * r) for a raster side w and a scale r
RoundMul(w, r) == (2 * w * r[1] + r[2]) \div (2 * r[2])

----------------------------------------------------------------------------
(* The raster engine adapter, src/vips.go.                                 *)
(* An adapter call works on a context c = [image, w, h, refs, ops, rot,    *)
(* err]: the handle it is given with its size, the release counts, the     *)
(* call log and the error it returns.  The engine call of an adapter       *)
(* function fails when the input says so (in.failAt names the operation)   *)
(* or when it is handed a nil image (the engine rejects a NULL input).     *)
(* The size of the raster an operation returns is the engine's: shrink     *)
(* truncates, shrink-on-load rounds up, affine rounds the scaled rectangle,*)
(* and an operation whose result would be empty, or an extract outside     *)
(* its input, fails.                                                       *)

Ctx == [image |-> image, w |-> imgW, h |-> imgH, refs |-> refs, ops |-> ops,
        rot |-> rotArg, modes |-> modes, err |-> ""]

\* C.g_object_unref(C.gpointer(h)); on NULL glib only warns
Unref(c, h) == IF h = NIL THEN c ELSE [c EXCEPT !.refs[h] = @ + 1]

\* the engine operation op is entered
Called(c, op) == [c EXCEPT !.ops = Append(@, op)]

\* the engine call returned 0 and set its out parameter to a new w x h raster
Produce(c, w, h) ==
    [c EXCEPT !.image = Len(c.refs) + 1, !.w = w, !.h = h,
              !.refs = Append(@, 0)]

\* return nil, catchVipsError()
Failed(c, e) == [c EXCEPT !.image = NIL, !.err = e]

EngineFails(c, op) == c.image = NIL \/ in.failAt = op

vipsRotate(c, angle) ==
    LET c1 == [Called(c, "rotate") EXCEPT !.rot = Append(@, angle)]
        r  == IF EngineFails(c, "rotate") THEN Failed(c1, "rotate")
              ELSE IF angle \in {90, 270} THEN Produce(c1, c.h, c.w)
              ELSE Produce(c1, c.w, c.h)
    IN  Unref(r, c.image)

vipsFlip(c) ==
    LET c1 == Called(c, "flip")
        r  == IF EngineFails(c, "flip") THEN Failed(c1, "flip")
              ELSE Produce(c1, c.w, c.h)
    IN  Unref(r, c.image)

vipsZoom(c, zoom) ==
    LET c1 == Called(c, "zoom")
        r  == IF EngineFails(c, "zoom") THEN Failed(c1, "zoom")
              ELSE Produce(c1, c.w * zoom, c.h * zoom)
    IN  Unref(r, c.image)

\* the input image is not released here
vipsWatermark(c) ==
    LET c1 == Called(c, "watermark")
    IN  IF EngineFails(c, "watermark") THEN Failed(c1, "watermark")
        ELSE Produce(c1, c.w, c.h)

\* vips_init_image on a buffer of a known type
vipsRead ==
    LET c1 == Called(Ctx, "read")
    IN  IF in.buf = "UNKNOWN" THEN Failed(Ctx, ErrFormat)
        ELSE IF in.failAt = "read" THEN Failed(c1, "read")
        ELSE Produce(c1, in.width, in.height)

vipsColourspaceIsSupported(c) == in.csSupported

vipsPreSave(c) ==
    IF vipsColourspaceIsSupported(c)
      THEN LET c1 == Called(c, "colourspace")
           IN  IF EngineFails(c, "colourspace") THEN Failed(c1, "colourspace")
               ELSE Unref(Produce(c1, c.w, c.h), c.image)
      ELSE c

\* the deferred unref holds the handle vipsSave was called with
vipsSave(c) ==
    LET p  == vipsPreSave(c)
        c1 == Called(p, "save")
        r  == IF p.err # "" THEN p
              ELSE IF EngineFails(p, "save") THEN Failed(c1, "save")
              ELSE c1
    IN  Unref(r, c.image)

vipsExtract(c, left, top, width, height) ==
    LET c1  == Called(c, "extract")
        bad == \/ EngineFails(c, "extract")
               \/ left < 0 \/ top < 0 \/ width < 1 \/ height < 1
               \/ left + width > c.w \/ top + height > c.h
        r   == IF width > MAX_SIZE \/ height > MAX_SIZE
                 THEN Failed(c, ErrMaxSize)
               ELSE IF bad THEN Failed(c1, "extract")
               ELSE Produce(c1, width, height)
    IN  Unref(r, c.image)

\* libjpeg's shrink-on-load rounds the scaled size up
vipsShrinkJpeg(c, k) ==
    LET c1 == Called(c, "jpegload")
        r  == IF EngineFails(c, "jpegload") THEN Failed(c1, "jpegload")
              ELSE Produce(c1, CeilDiv(in.width, k), CeilDiv(in.height, k))
    IN  Unref(r, c.image)

\* vips_shrink truncates the shrunk size and refuses an empty result
vipsShrink(c, k) ==
    LET c1 == Called(c, "shrink")
        r  == IF EngineFails(c, "shrink") \/ c.w \div k < 1 \/ c.h \div k < 1
                THEN Failed(c1, "shrink")
              ELSE Produce(c1, c.w \div k, c.h \div k)
    IN  Unref(r, c.image)

vipsEmbed(c, left, top, width, height) ==
    LET c1 == Called(c, "embed")
        r  == IF EngineFails(c, "embed") \/ width < 1 \/ height < 1
                THEN Failed(c1, "embed")
              ELSE Produce(c1, width, height)
    IN  Unref(r, c.image)

\* the affine output is the rounded image of the input rectangle
vipsAffine(c, residualx, residualy) ==
    LET c1 == Called(c, "affine")
        w  == RoundMul(c.w, residualx)
        h  == RoundMul(c.h, residualy)
        r  == IF EngineFails(c, "affine") \/ w < 1 \/ h < 1
                THEN Failed(c1, "affine")
              ELSE Produce(c1, w, h)
    IN  Unref(r, c.image)

vipsGaussianBlur(c) ==
    LET c1 == Called(c, "gaussblur")
        r  == IF EngineFails(c, "gaussblur") THEN Failed(c1, "gaussblur")
              ELSE Produce(c1, c.w, c.h)
    IN  Unref(r, c.image)

\* the window of the engine's interpolators: bilinear 2, bicubic 4, nohalo 5
vipsWindowSize(name) ==
    CASE name = "bicubic" -> 4
      [] name = "nohalo"  -> 5
      [] OTHER            -> 2

vipsExifOrientation(c) == in.exif

----------------------------------------------------------------------------
(* The pure functions of src/resize.go *)

IsTypeSupported(t) == t \in {"JPEG", "PNG", "WEBP"}

applyDefaults(opts, type) ==
    IF opts.Type = "UNKNOWN" THEN [opts EXCEPT !.Type = type] ELSE opts

\* normalizeOperation forcing whatever mode was requested
normalizeOperation_IgnoresModes(opts) ==
    IF ~opts.Force /\ ~opts.Enlarge /\ opts.Rotate = 0
       /\ (opts.Width > 0 \/ opts.Height > 0)
      THEN [opts EXCEPT !.Force = TRUE]
      ELSE opts

normalizeOperation(opts) ==
    IF /\ ~opts.Force /\ ~opts.Crop /\ ~opts.Embed /\ ~opts.Enlarge
       /\ opts.Rotate = 0 /\ (opts.Width > 0 \/ opts.Height > 0)
      THEN [opts EXCEPT !.Force = TRUE]
      ELSE opts

shouldTransformImage(opts, inWidth, inHeight) ==
    \/ opts.Force
    \/ (opts.Width > 0 /\ opts.Width # inWidth)
    \/ (opts.Height > 0 /\ opts.Height # inHeight)
    \/ opts.AreaWidth > 0
    \/ opts.AreaHeight > 0

shouldApplyEffects(opts) == opts.GaussianBlur

\* imageCalculations taking the larger ratio in crop mode too
imageCalculations_AlwaysMax(opts, inWidth, inHeight) ==
    LET xfactor == Rat(inWidth, opts.Width)
        yfactor == Rat(inHeight, opts.Height)
    IN  IF opts.Width > 0 /\ opts.Height > 0
          THEN [o |-> opts, factor |-> RMax(xfactor, yfactor)]
        ELSE IF opts.Width > 0
          THEN [o |-> [opts EXCEPT !.Height =
                          RFloor(Rat(inHeight * xfactor[2], xfactor[1]))],
                factor |-> xfactor]
        ELSE IF opts.Height > 0
          THEN [o |-> [opts EXCEPT !.Width =
                          RFloor(Rat(inWidth * yfactor[2], yfactor[1]))],
                factor |-> yfactor]
        ELSE [o |-> [opts EXCEPT !.Width = inWidth, !.Height = inHeight],
              factor |-> Rat(1, 1)]

\* the options with width/height resolved, and the factor
imageCalculations(opts, inWidth, inHeight) ==
    LET xfactor == Rat(inWidth, opts.Width)
        yfactor == Rat(inHeight, opts.Height)
    IN  IF opts.Width > 0 /\ opts.Height > 0
          THEN [o |-> opts,
                factor |-> IF opts.Crop THEN RMin(xfactor, yfactor)
                           ELSE RMax(xfactor, yfactor)]
        ELSE IF opts.Width > 0
          THEN [o |-> [opts EXCEPT !.Height =
                          RFloor(Rat(inHeight * xfactor[2], xfactor[1]))],
                factor |-> xfactor]
        ELSE IF opts.Height > 0
          THEN [o |-> [opts EXCEPT !.Width =
                          RFloor(Rat(inWidth * yfactor[2], yfactor[1]))],
                factor |-> yfactor]
        ELSE [o |-> [opts EXCEPT !.Width = inWidth, !.Height = inHeight],
              factor |-> Rat(1, 1)]

calculateCrop(inWidth, inHeight, outWidth, outHeight, gravity) ==
    CASE gravity = "NORTH" -> <<GoDiv(inWidth - outWidth + 1, 2), 0>>
      [] gravity = "EAST"  -> <<inWidth - outWidth,
                                GoDiv(inHeight - outHeight + 1, 2)>>
      [] gravity = "SOUTH" -> <<GoDiv(inWidth - outWidth + 1, 2),
                                inHeight - outHeight>>
      [] gravity = "WEST"  -> <<0, GoDiv(inHeight - outHeight + 1, 2)>>
      [] OTHER             -> <<GoDiv(inWidth - outWidth + 1, 2),
                                GoDiv(inHeight - outHeight + 1, 2)>>

\* <<rotate, flip>>
calculateRotationAndFlip(c, angle) ==
    LET e == vipsExifOrientation(c)
    IN  IF angle > 0 THEN <<D0, FALSE>>
        ELSE CASE e = 6 -> <<D90, FALSE>>
               [] e = 3 -> <<D180, FALSE>>
               [] e = 8 -> <<D270, FALSE>>
               [] e = 2 -> <<D0, TRUE>>
               [] e = 7 -> <<D90, TRUE>>
               [] e = 4 -> <<D180, TRUE>>
               [] e = 5 -> <<D270, TRUE>>
               [] OTHER -> <<D0, FALSE>>

\* calculateShrink without the final math.Max(shrink, 1)
calculateShrink_NoClamp(f, interpolator) ==
    LET windowSize == vipsWindowSize(interpolator)
    IN  IF ~RLess(f, Rat(2, 1)) /\ windowSize > 3
          THEN RFloor(Rat(f[1] * 3, f[2] * windowSize))
          ELSE RFloor(f)

calculateShrink(f, interpolator) ==
    LET windowSize == vipsWindowSize(interpolator)
        s == IF ~RLess(f, Rat(2, 1)) /\ windowSize > 3
               THEN RFloor(Rat(f[1] * 3, f[2] * windowSize))
               ELSE RFloor(f)
    IN  Max(s, 1)

calculateResidual(f, s) == Rat(s * f[2], f[1])

\* getAngle without the cap at 270
getAngle_NoCap(angle) ==
    LET divisor == GoRem(angle, 90)
    IN  IF divisor # 0 THEN angle - divisor ELSE angle

getAngle(angle) ==
    LET divisor == GoRem(angle, 90)
        a == IF divisor # 0 THEN angle - divisor ELSE angle
    IN  Min(a, 270)

----------------------------------------------------------------------------
(* The pipeline stages of src/resize.go, each on a context *)

Acted(c, m) == [c EXCEPT !.modes = @ \cup {m}]

zoomImage(c, zoom) == IF zoom = 0 THEN c ELSE vipsZoom(c, zoom + 1)

\* o is passed by value: the rotation and flip resolved here stay local
rotateAndFlipImage(c, opts) ==
    LET rf     == calculateRotationAndFlip(c, opts.Rotate)
        flip   == IF ~opts.NoAutoRotate /\ rf[2] THEN TRUE ELSE opts.Flip
        rotate == IF ~opts.NoAutoRotate /\ rf[1] > D0 /\ opts.Rotate = 0
                    THEN rf[1] ELSE opts.Rotate
        c1     == IF rotate > 0 THEN vipsRotate(c, getAngle(rotate)) ELSE c
    IN  IF flip \/ opts.Flop THEN vipsFlip([c1 EXCEPT !.err = ""]) ELSE c1

\* <<context, residual>>
shrinkImage(c, opts, r, s) ==
    LET c1 == vipsShrink(c, s)
        residualx == Rat(opts.Width, c1.w)
        residualy == Rat(opts.Height, c1.h)
    IN  IF c1.err # "" THEN <<c1, Rat(0, 1)>>
        ELSE <<c1, IF opts.Crop THEN RMax(residualx, residualy)
                   ELSE RMin(residualx, residualy)>>

\* [sol, factor]: the shrink-on-load level and the factor left
shrinkJpegImage(f, s) ==
    IF s >= 8 THEN [sol |-> 8, factor |-> Rat(f[1], f[2] * 8)]
    ELSE IF s >= 4 THEN [sol |-> 4, factor |-> Rat(f[1], f[2] * 4)]
    ELSE IF s >= 2 THEN [sol |-> 2, factor |-> Rat(f[1], f[2] * 2)]
    ELSE [sol |-> 1, factor |-> f]

extractOrEmbedImage(c, opts) ==
    LET inWidth  == c.w
        inHeight == c.h
    IN  IF opts.Crop
          THEN LET width  == Min(inWidth, opts.Width)
                   height == Min(inHeight, opts.Height)
                   lt == calculateCrop(inWidth, inHeight, opts.Width,
                                       opts.Height, opts.Gravity)
               IN  vipsExtract(Acted(c, "crop"), Max(lt[1], 0), Max(lt[2], 0),
                               width, height)
        ELSE IF opts.Embed
          THEN vipsEmbed(Acted(c, "embed"), GoDiv(opts.Width - inWidth, 2),
                         GoDiv(opts.Height - inHeight, 2),
                         opts.Width, opts.Height)
        ELSE IF opts.Top > 0 \/ opts.Left > 0
          THEN LET ah1 == IF opts.AreaWidth = 0 THEN opts.Width
                          ELSE opts.AreaHeight
                   ah  == IF ah1 = 0 THEN opts.Height ELSE ah1
               IN  IF opts.AreaWidth = 0 \/ ah = 0
                     THEN Failed(c, ErrExtractParams)
                     ELSE vipsExtract(c, opts.Left, opts.Top, opts.AreaWidth, ah)
        ELSE c

\* transformImage resampling with the one residual in force mode too
transformImage_KeepsResidual(c, opts, s, r) ==
    LET sh  == IF s > 1 THEN shrinkImage(c, opts, r, s) ELSE <<c, r>>
        c1  == sh[1]
        res == sh[2]
        c2  == IF opts.Force THEN Acted(c1, "force") ELSE c1
        c3  == IF opts.Force \/ ~RIsZero(res)
                 THEN vipsAffine(c2, res, res) ELSE c2
        o2  == IF opts.Force THEN [opts EXCEPT !.Crop = FALSE, !.Embed = FALSE]
               ELSE opts
    IN  IF c1.err # "" THEN c1
        ELSE IF c3.err # "" THEN c3
        ELSE extractOrEmbedImage(c3, o2)

\* transformImage leaving crop and embed set in force mode
transformImage_KeepsCropEmbed(c, opts, s, r) ==
    LET sh  == IF s > 1 THEN shrinkImage(c, opts, r, s) ELSE <<c, r>>
        c1  == sh[1]
        res == sh[2]
        residualx == IF opts.Force THEN Rat(opts.Width, c1.w) ELSE res
        residualy == IF opts.Force THEN Rat(opts.Height, c1.h) ELSE res
        c2  == IF opts.Force THEN Acted(c1, "force") ELSE c1
        c3  == IF opts.Force \/ ~RIsZero(res)
                 THEN vipsAffine(c2, residualx, residualy) ELSE c2
    IN  IF c1.err # "" THEN c1
        ELSE IF c3.err # "" THEN c3
        ELSE extractOrEmbedImage(c3, opts)

\* transformImage cropping or embedding before it scales
transformImage_ExtractFirst(c, opts, s, r) ==
    LET o2  == IF opts.Force THEN [opts EXCEPT !.Crop = FALSE, !.Embed = FALSE]
               ELSE opts
        c0  == extractOrEmbedImage(c, o2)
        sh  == IF s > 1 THEN shrinkImage(c0, opts, r, s) ELSE <<c0, r>>
        c1  == sh[1]
        res == sh[2]
        residualx == IF opts.Force THEN Rat(opts.Width, c1.w) ELSE res
        residualy == IF opts.Force THEN Rat(opts.Height, c1.h) ELSE res
        c2  == IF opts.Force THEN Acted(c1, "force") ELSE c1
    IN  IF c0.err # "" THEN c0
        ELSE IF c1.err # "" THEN c1
        ELSE IF opts.Force \/ ~RIsZero(res)
          THEN vipsAffine(c2, residualx, residualy)
        ELSE c2

transformImage(c, opts, s, r) ==
    LET sh  == IF s > 1 THEN shrinkImage(c, opts, r, s) ELSE <<c, r>>
        c1  == sh[1]
        res == sh[2]
        residualx == IF opts.Force THEN Rat(opts.Width, c1.w) ELSE res
        residualy == IF opts.Force THEN Rat(opts.Height, c1.h) ELSE res
        c2  == IF opts.Force THEN Acted(c1, "force") ELSE c1
        c3  == IF opts.Force \/ ~RIsZero(res)
                 THEN vipsAffine(c2, residualx, residualy) ELSE c2
        o2  == IF opts.Force THEN [opts EXCEPT !.Crop = FALSE, !.Embed = FALSE]
               ELSE opts
    IN  IF c1.err # "" THEN c1
        ELSE IF c3.err # "" THEN c3
        ELSE extractOrEmbedImage(c3, o2)

applyEffects(c, opts) ==
    IF opts.GaussianBlur THEN vipsGaussianBlur(c) ELSE c

watermakImage(c, opts) ==
    IF ~opts.Watermark THEN c ELSE vipsWatermark(c)

----------------------------------------------------------------------------
(* Resize, src/resize.go lines 14-121, statement group by statement group *)

Commit(c) ==
    /\ image' = c.image
    /\ imgW' = c.w
    /\ imgH' = c.h
    /\ refs' = c.refs
    /\ ops' = c.ops
    /\ rotArg' = c.rot
    /\ modes' = c.modes

\* if err != nil { return nil, err }, else on to the next statement
Continue(c, next) ==
    /\ Commit(c)
    /\ err' = c.err
    /\ pc' = IF c.err # "" THEN "done" ELSE next

\* lines 17-24: the empty-buffer check and vipsRead
Validate ==
    /\ pc = "start"
    /\ UNCHANGED libVars
    /\ IF in.buf = "empty"
         THEN /\ err' = ErrEmptyBuffer
              /\ pc' = "done"
              /\ UNCHANGED <<image, imgW, imgH, refs, ops, rotArg, modes, imageType>>
         ELSE LET c == vipsRead
              IN  /\ Continue(c, "defaults")
                  /\ imageType' = IF c.err = "" THEN in.buf ELSE "UNKNOWN"
    /\ UNCHANGED <<in, o, factor, shrink, residual, out>>

\* lines 26-31: applyDefaults and the output type check (of the defaults only
\* the output type bears on the pipeline)
Defaults ==
    /\ pc = "defaults"
    /\ UNCHANGED libVars
    /\ o' = applyDefaults(o, imageType)
    /\ IF IsTypeSupported(o'.Type)
         THEN pc' = "normalize" /\ err' = err
         ELSE pc' = "done" /\ err' = ErrOutputType
    /\ UNCHANGED <<in, imageType, image, imgW, imgH, refs, ops, rotArg, modes,
                   factor, shrink, residual, out>>

\* line 39
Normalize ==
    /\ pc = "normalize"
    /\ UNCHANGED libVars
    /\ o' = normalizeOperation(o)
    /\ pc' = "calc"
    /\ UNCHANGED <<in, imageType, image, imgW, imgH, refs, ops, rotArg, modes,
                   factor, shrink, residual, err, out>>

\* lines 42-44
Calculate ==
    /\ pc = "calc"
    /\ UNCHANGED libVars
    /\ LET r == imageCalculations(o, in.width, in.height)
       IN  /\ o' = r.o
           /\ factor' = r.factor
           /\ shrink' = calculateShrink(r.factor, o.Interpolator)
           /\ residual' = calculateResidual(r.factor, shrink')
    /\ pc' = "guard"
    /\ UNCHANGED <<in, imageType, image, imgW, imgH, refs, ops, rotArg, modes,
                   err, out>>

\* lines 46-56: the no-enlarge guard
Guard ==
    /\ pc = "guard"
    /\ UNCHANGED libVars
    /\ IF ~o.Enlarge /\ ~o.Force /\ in.width < o.Width /\ in.height < o.Height
         THEN /\ factor' = Rat(1, 1)
              /\ shrink' = 1
              /\ residual' = Rat(0, 1)
              /\ o' = [o EXCEPT !.Width = in.width, !.Height = in.height]
         ELSE UNCHANGED <<factor, shrink, residual, o>>
    /\ pc' = "jpeg"
    /\ UNCHANGED <<in, imageType, image, imgW, imgH, refs, ops, rotArg, modes,
                   err, out>>

\* lines 58-69: the factor assigned inside the block is the block's own
JpegShrink ==
    /\ pc = "jpeg"
    /\ UNCHANGED libVars
    /\ IF imageType = "JPEG" /\ shrink >= 2
         THEN LET r == shrinkJpegImage(factor, shrink)
                  c == vipsShrinkJpeg(Ctx, r.sol)
                  f == RMax(r.factor, Rat(1, 1))
              IN  /\ Continue(c, "zoom")
                  /\ IF c.err = ""
                       THEN /\ shrink' = RFloor(f)
                            /\ residual' = Rat(shrink' * f[2], f[1])
                       ELSE UNCHANGED <<shrink, residual>>
         ELSE /\ pc' = "zoom"
              /\ UNCHANGED <<image, imgW, imgH, refs, ops, rotArg, modes, err,
                             shrink, residual>>
    /\ UNCHANGED <<in, o, imageType, factor, out>>

\* lines 71-75
Zoom ==
    /\ pc = "zoom"
    /\ UNCHANGED libVars
    /\ Continue(zoomImage(Ctx, o.Zoom), "rotate")
    /\ UNCHANGED <<in, o, imageType, factor, shrink, residual, out>>

\* lines 77-81
RotateFlip ==
    /\ pc = "rotate"
    /\ UNCHANGED libVars
    /\ Continue(rotateAndFlipImage(Ctx, o), "transform")
    /\ UNCHANGED <<in, o, imageType, factor, shrink, residual, out>>

\* lines 83-89
Transform ==
    /\ pc = "transform"
    /\ UNCHANGED libVars
    /\ IF shouldTransformImage(o, in.width, in.height)
         THEN Continue(transformImage(Ctx, o, shrink, residual), "effects")
         ELSE Continue(Ctx, "effects")
    /\ UNCHANGED <<in, o, imageType, factor, shrink, residual, out>>

\* lines 91-97
Effects ==
    /\ pc = "effects"
    /\ UNCHANGED libVars
    /\ IF shouldApplyEffects(o)
         THEN Continue(applyEffects(Ctx, o), "watermark")
         ELSE Continue(Ctx, "watermark")
    /\ UNCHANGED <<in, o, imageType, factor, shrink, residual, out>>

\* lines 99-103
Watermark ==
    /\ pc = "watermark"
    /\ UNCHANGED libVars
    /\ Continue(watermakImage(Ctx, o), "save")
    /\ UNCHANGED <<in, o, imageType, factor, shrink, residual, out>>

\* lines 105-120
Save ==
    /\ pc = "save"
    /\ UNCHANGED libVars
    /\ LET c == vipsSave(Ctx)
       IN  /\ Continue(c, "done")
           /\ out' = (c.err = "")
    /\ UNCHANGED <<in, o, imageType, factor, shrink, residual>>

Next ==
    \/ Validate
    \/ Defaults
    \/ Normalize
    \/ Calculate
    \/ Guard
    \/ JpegShrink
    \/ Zoom
    \/ RotateFlip
    \/ Transform
    \/ Effects
    \/ Watermark
    \/ Save

-----------------------------------------------------------------------------
(* Initialize and Shutdown (vips.go), called from concurrent goroutines *)

NProcs == 3

MaxCalls == 4

Procs == 1..NProcs

\* The package state once the package's init() has run Initialize
LibInit ==
    /\ mOwner = 0
    /\ initialized = TRUE
    /\ gpc = [p \in Procs |-> "idle"]
    /\ inits = 1
    /\ shutdowns = 0
    /\ up = 1
    /\ libCalls = 0

\* Initialize, lines 68-71: m.Lock() (the unlock is deferred)
InitializeLock(p) ==
    /\ gpc[p] = "idle"
    /\ libCalls < MaxCalls
    /\ mOwner = 0
    /\ mOwner' = p
    /\ gpc' = [gpc EXCEPT ![p] = "vips_init"]
    /\ libCalls' = libCalls + 1
    /\ UNCHANGED <<initialized, inits, shutdowns, up>>
    /\ UNCHANGED resizeVars

\* Initialize, lines 73-92: C.vips_init and the cache and concurrency
\* settings; the flag is not looked at (a failing vips_init panics and ends
\* the process)
InitializeStart(p) ==
    /\ gpc[p] = "vips_init"
    /\ inits' = inits + 1
    /\ up' = up + 1
    /\ gpc' = [gpc EXCEPT ![p] = "set_flag"]
    /\ UNCHANGED <<mOwner, initialized, shutdowns, libCalls>>
    /\ UNCHANGED resizeVars

\* Initialize, line 95: initialized = true
InitializeSetFlag(p) ==
    /\ gpc[p] = "set_flag"
    /\ initialized' = TRUE
    /\ gpc' = [gpc EXCEPT ![p] = "init_unlock"]
    /\ UNCHANGED <<mOwner, inits, shutdowns, up, libCalls>>
    /\ UNCHANGED resizeVars

\* Initialize, line 96: the deferred m.Unlock()
InitializeUnlock(p) ==
    /\ gpc[p] = "init_unlock"
    /\ mOwner' = 0
    /\ gpc' = [gpc EXCEPT ![p] = "idle"]
    /\ UNCHANGED <<initialized, inits, shutdowns, up, libCalls>>
    /\ UNCHANGED resizeVars

\* Shutdown that enters its body without taking the mutex
ShutdownLock_NoLock(p) ==
    /\ gpc[p] = "idle"
    /\ libCalls < MaxCalls
    /\ gpc' = [gpc EXCEPT ![p] = "test_flag"]
    /\ libCalls' = libCalls + 1
    /\ UNCHANGED <<mOwner, initialized, inits, shutdowns, up>>
    /\ UNCHANGED resizeVars

\* Shutdown, lines 102-103: m.Lock() (the unlock is deferred)
ShutdownLock(p) ==
    /\ gpc[p] = "idle"
    /\ libCalls < MaxCalls
    /\ mOwner = 0
    /\ mOwner' = p
    /\ gpc' = [gpc EXCEPT ![p] = "test_flag"]
    /\ libCalls' = libCalls + 1
    /\ UNCHANGED <<initialized, inits, shutdowns, up>>
    /\ UNCHANGED resizeVars

\* Shutdown, line 105: if initialized
ShutdownTest(p) ==
    /\ gpc[p] = "test_flag"
    /\ gpc' = [gpc EXCEPT ![p] = IF initialized THEN "vips_shutdown"
                                 ELSE "skipped"]
    /\ UNCHANGED <<mOwner, initialized, inits, shutdowns, up, libCalls>>
    /\ UNCHANGED resizeVars

\* Shutdown, lines 106-107: C.vips_shutdown(); initialized = false
ShutdownStop(p) ==
    /\ gpc[p] = "vips_shutdown"
    /\ shutdowns' = shutdowns + 1
    /\ up' = 0
    /\ initialized' = FALSE
    /\ gpc' = [gpc EXCEPT ![p] = "stopped"]
    /\ UNCHANGED <<mOwner, inits, libCalls>>
    /\ UNCHANGED resizeVars

\* Shutdown, line 109: the deferred m.Unlock(), after either branch
ShutdownUnlock(p) ==
    /\ gpc[p] \in {"stopped", "skipped"}
    /\ mOwner' = 0
    /\ gpc' = [gpc EXCEPT ![p] = "idle"]
    /\ UNCHANGED <<initialized, inits, shutdowns, up, libCalls>>
    /\ UNCHANGED resizeVars

\* Goroutines calling Initialize and Shutdown in any order and interleaving
NextLib ==
    \E p \in Procs :
        \/ InitializeLock(p)
        \/ InitializeStart(p)
        \/ InitializeSetFlag(p)
        \/ InitializeUnlock(p)
        \/ ShutdownLock(p)
        \/ ShutdownTest(p)
        \/ ShutdownStop(p)
        \/ ShutdownUnlock(p)

----------------------------------------------------------------------------
(* The calls the model follows: the state when Resize is entered *)

DefaultOptions ==
    [Width |-> 0, Height |-> 0, Force |-> FALSE, Crop |-> FALSE,
     Embed |-> FALSE, Enlarge |-> FALSE, Rotate |-> 0, Flip |-> FALSE,
     Flop |-> FALSE, NoAutoRotate |-> FALSE, Zoom |-> 0, Top |-> 0,
     Left |-> 0, AreaWidth |-> 0, AreaHeight |-> 0, Gravity |-> "CENTRE",
     Type |-> "UNKNOWN", Interpolator |-> "bicubic", GaussianBlur |-> FALSE,
     Watermark |-> FALSE]

DefaultInput ==
    [buf |-> "PNG", width |-> MaxDim, height |-> MaxDim, exif |-> 0,
     csSupported |-> FALSE, failAt |-> "none"]

FailStages ==
    {"none", "read", "jpegload", "zoom", "rotate", "flip", "shrink", "affine",
     "extract", "embed", "gaussblur", "watermark", "colourspace", "save"}

\* Calls <<input, options>> that end before the pipeline starts
InvalidCalls ==
    {<<[DefaultInput EXCEPT !.buf = b], DefaultOptions>> :
        b \in {"empty", "UNKNOWN"}}
    \cup {<<DefaultInput, [DefaultOptions EXCEPT !.Type = "TIFF"]>>}

\* Calls on a MaxDim x MaxDim image with every engine operation in reach and
\* any one of them failing
LifeCalls ==
    {<<[DefaultInput EXCEPT !.buf = b, !.csSupported = cs, !.failAt = f],
       [DefaultOptions EXCEPT !.Width = wh, !.Height = wh,
           !.Force = (m = "force"), !.Crop = (m = "crop"),
           !.Embed = (m = "embed"), !.Rotate = r, !.Flip = fl, !.Zoom = z,
           !.Top = x[1], !.AreaWidth = x[2], !.AreaHeight = x[2],
           !.Interpolator = "bilinear",
           !.GaussianBlur = e[1], !.Watermark = e[2]]>> :
        b \in {"JPEG", "PNG"}, cs \in BOOLEAN, f \in FailStages,
        wh \in {0, MaxDim \div 2}, m \in {"none", "force", "crop", "embed"},
        r \in {0, 90}, fl \in BOOLEAN, z \in {0, 1},
        x \in {<<0, 0>>, <<1, 0>>, <<1, 1>>},
        e \in {<<FALSE, FALSE>>, <<TRUE, FALSE>>, <<FALSE, TRUE>>}}

InitOf(calls) ==
    /\ \E call \in calls :
          /\ in = call[1] @@ [options |-> call[2]]
          /\ o = call[2]
    /\ pc = "start"
    /\ imageType = "UNKNOWN"
    /\ image = NIL
    /\ imgW = 0
    /\ imgH = 0
    /\ refs = << >>
    /\ ops = << >>
    /\ rotArg = << >>
    /\ modes = {}
    /\ factor = Rat(1, 1)
    /\ shrink = 0
    /\ residual = Rat(0, 1)
    /\ err = ""
    /\ out = FALSE
    /\ LibInit

Init == InitOf(InvalidCalls \cup LifeCalls)

Spec == Init /\ [][Next]_vars

\* Input rasters of every size up to MaxDim x MaxDim, and one large enough
\* for the deepest shrink-on-load level; the engine never fails by itself
GeomInputs ==
    {[DefaultInput EXCEPT !.buf = b, !.width = d[1], !.height = d[2]] :
        b \in {"JPEG", "PNG"},
        d \in ((1..MaxDim) \X (1..MaxDim)) \cup {<<2 * MaxDim, 2 * MaxDim>>}}

Requests == (0..MaxReq) \X (0..MaxReq)

\* Geometry before the resample: none, zoom, rotate by request, rotate by EXIF
Pre == {<<0, 0, 0>>, <<1, 0, 0>>, <<0, 90, 0>>, <<0, 0, 6>>}

\* Calls with force set
ForceCalls ==
    {<<[i EXCEPT !.exif = p[3]],
       [DefaultOptions EXCEPT !.Force = TRUE, !.Width = rq[1],
           !.Height = rq[2], !.Crop = (m = "crop"), !.Embed = (m = "embed"),
           !.Zoom = p[1], !.Rotate = p[2], !.Top = x[1], !.AreaWidth = x[2],
           !.AreaHeight = x[2], !.Interpolator = ip]>> :
        i \in GeomInputs, rq \in Requests, m \in {"none", "crop", "embed"},
        p \in Pre, x \in {<<0, 0>>, <<1, 0>>, <<1, 1>>},
        ip \in {"bilinear", "bicubic"}}

InitForce == InitOf(ForceCalls)

SpecForce == InitForce /\ [][Next]_vars

\* Calls with crop set and force unset
CropCalls ==
    {<<[i EXCEPT !.exif = p[3]],
       [DefaultOptions EXCEPT !.Crop = TRUE, !.Width = rq[1],
           !.Height = rq[2], !.Enlarge = en, !.Gravity = g,
           !.Zoom = p[1], !.Rotate = p[2], !.Interpolator = ip]>> :
        i \in GeomInputs, rq \in Requests, en \in BOOLEAN, p \in Pre,
        g \in {"CENTRE", "NORTH", "EAST", "SOUTH", "WEST"},
        ip \in {"bilinear", "bicubic"}}

InitCrop == InitOf(CropCalls)

SpecCrop == InitCrop /\ [][Next]_vars

\* Calls with every combination of the mode flags
GeomCalls ==
    {<<i,
       [DefaultOptions EXCEPT !.Force = fl[1], !.Crop = fl[2],
           !.Embed = fl[3], !.Enlarge = fl[4], !.Width = rq[1],
           !.Height = rq[2], !.Rotate = r, !.Interpolator = ip]>> :
        i \in GeomInputs, rq \in Requests,
        fl \in BOOLEAN \X BOOLEAN \X BOOLEAN \X BOOLEAN,
        r \in {0, 90}, ip \in {"bilinear", "bicubic"}}

InitGeom == InitOf(GeomCalls)

SpecGeom == InitGeom /\ [][Next]_vars

\* Calls with every scale factor and every interpolator
ShrinkCalls ==
    {<<i,
       [DefaultOptions EXCEPT !.Crop = cr, !.Enlarge = en, !.Width = rq[1],
           !.Height = rq[2], !.Interpolator = ip]>> :
        i \in GeomInputs, rq \in Requests, cr \in BOOLEAN, en \in BOOLEAN,
        ip \in {"bilinear", "bicubic", "nohalo"}}

InitShrink == InitOf(ShrinkCalls)

SpecShrink == InitShrink /\ [][Next]_vars

\* Calls with every requested angle in -MaxAngle..MaxAngle
AngleCalls ==
    {<<[DefaultInput EXCEPT !.exif = e],
       [DefaultOptions EXCEPT !.Rotate = a, !.NoAutoRotate = n]>> :
        a \in (-MaxAngle)..MaxAngle, e \in {0, 6}, n \in BOOLEAN}

InitAngle == InitOf(AngleCalls)

SpecAngle == InitAngle /\ [][Next]_vars

----------------------------------------------------------------------------
(* Properties *)

Range(f) == {f[i] : i \in DOMAIN f}

Last(q) == q[Len(q)]

Done == pc = "done"

Succeeded == pc = "done" /\ out

\* C1: every raster handle obtained during a Resize call is released exactly
\* once on every exit path: none is released twice, and none is unreleased
\* when Resize has returned.
C1_ReleasedExactlyOnce ==
    /\ \A h \in DOMAIN refs : refs[h] <= 1
    /\ Done => \A h \in DOMAIN refs : refs[h] = 1

\* C2: when an engine operation of the pipeline fails, it is the last engine
\* operation of the call, and Resize returns that operation's error and no
\* buffer; in particular no flip follows a failed rotate.
C2_FailureAborts ==
    in.failAt \in Range(ops) =>
        /\ Last(ops) = in.failAt
        /\ Done /\ ~out /\ err = in.failAt

\* C7: with an explicit top or left offset and neither crop nor embed in
\* effect, an unset area width/height falls back to the target width/height:
\* the missing-parameters error is returned only when an area side is unset
\* and the target side is unset too.
C7_ExtractAreaDefaults ==
    err = ErrExtractParams =>
        \/ o.AreaWidth = 0 /\ o.Width = 0
        \/ o.AreaHeight = 0 /\ o.Height = 0


Req == in.options

\* Resize got past the output type check, so the geometry was calculated
Calculated ==
    \/ pc \in {"guard", "jpeg", "zoom", "rotate", "transform", "effects",
               "watermark", "save"}
    \/ Done /\ ops # << >> /\ Last(ops) # "read" /\ err # ErrOutputType

Normalized == pc = "calc" \/ Calculated

NoExtractRegion ==
    Req.Top = 0 /\ Req.Left = 0 /\ Req.AreaWidth = 0 /\ Req.AreaHeight = 0

NoZoomNoRotation == Req.Zoom = 0 /\ rotArg = << >>

SmallerThanRequested == in.width < Req.Width /\ in.height < Req.Height

\* C3 as claimed: with enlarge and force unset in the options and an input
\* smaller than the request on both axes (no zoom, rotation or extract
\* region), the output has the input's size.
C3_NoUpscale ==
    (/\ Succeeded /\ ~Req.Enlarge /\ ~Req.Force /\ SmallerThanRequested
     /\ NoZoomNoRotation /\ NoExtractRegion)
        => imgW = in.width /\ imgH = in.height

\* C3 amended: the same when force is still unset after mode normalization,
\* that is when crop or embed was requested.
C3_NoUpscaleUnlessForced ==
    (/\ Succeeded /\ ~Req.Enlarge /\ ~Req.Force /\ (Req.Crop \/ Req.Embed)
     /\ SmallerThanRequested /\ NoZoomNoRotation /\ NoExtractRegion)
        => imgW = in.width /\ imgH = in.height

\* an embed call on a small non-square input returns the input size
C3_Witness ==
    /\ Succeeded /\ ~Req.Enlarge /\ ~Req.Force /\ Req.Embed /\ ~Req.Crop
    /\ SmallerThanRequested /\ NoZoomNoRotation /\ NoExtractRegion
    /\ in.width # in.height
    /\ imgW = in.width /\ imgH = in.height

\* C4 as claimed: with force set and a width and height requested, the
\* output is exactly width x height, whatever else is set.
C4_ForceExact ==
    (Succeeded /\ Req.Force /\ Req.Width > 0 /\ Req.Height > 0)
        => imgW = Req.Width /\ imgH = Req.Height

\* C4 amended: the same when no top or left offset is given.
C4_ForceExactNoOffset ==
    (/\ Succeeded /\ Req.Force /\ Req.Width > 0 /\ Req.Height > 0
     /\ Req.Top = 0 /\ Req.Left = 0)
        => imgW = Req.Width /\ imgH = Req.Height

\* a forced resize after shrink-on-load, rotation and integer shrink, with crop set too
C4_Witness ==
    /\ Succeeded /\ Req.Force /\ Req.Crop /\ Req.Top = 0 /\ Req.Left = 0
    /\ "jpegload" \in Range(ops) /\ "shrink" \in Range(ops)
    /\ "rotate" \in Range(ops)
    /\ Req.Width # Req.Height
    /\ imgW = Req.Width /\ imgH = Req.Height

\* C5 as claimed: with crop set, force unset and a width and height
\* requested, the output is min(input, requested) on each axis.
C5_CropMin ==
    (/\ Succeeded /\ Req.Crop /\ ~Req.Force
     /\ Req.Width > 0 /\ Req.Height > 0)
        => /\ imgW = Min(in.width, Req.Width)
           /\ imgH = Min(in.height, Req.Height)

\* C5 amended: with no zoom and no rotation applied, the output is the input
\* when the input is smaller than the request on both axes and enlarge is
\* unset, and exactly the requested width x height in every other case.
C5_CropSize ==
    (/\ Succeeded /\ Req.Crop /\ ~Req.Force
     /\ Req.Width > 0 /\ Req.Height > 0 /\ NoZoomNoRotation)
        => IF SmallerThanRequested /\ ~Req.Enlarge
             THEN imgW = in.width /\ imgH = in.height
             ELSE imgW = Req.Width /\ imgH = Req.Height

\* a JPEG cropped to a request smaller than the input on both axes
C5_Witness ==
    /\ Succeeded /\ Req.Crop /\ ~Req.Force /\ NoZoomNoRotation
    /\ Req.Width > 0 /\ Req.Width < in.width
    /\ Req.Height > 0 /\ Req.Height < in.height
    /\ "jpegload" \in Range(ops) /\ Last(ops) = "save"
    /\ "extract" \in Range(ops)
    /\ imgW = Req.Width /\ imgH = Req.Height

NoModeRequested == ~Req.Force /\ ~Req.Crop /\ ~Req.Embed

SizeRequested == Req.Width > 0 \/ Req.Height > 0

\* C6 as claimed: exactly one of force, crop, embed takes effect in a call,
\* and force is the one when no mode but a width or height was requested.
C6_ExactlyOneMode ==
    /\ Succeeded => Cardinality(modes) = 1
    /\ (Normalized /\ NoModeRequested /\ SizeRequested) => o.Force

\* C6 amended: at most one of force, crop, embed takes effect in a call, and
\* force is the one when none of force, crop, embed, enlarge and no rotation
\* was requested but a width or height was.
C6_AtMostOneMode ==
    /\ Cardinality(modes) <= 1
    /\ (/\ Normalized /\ NoModeRequested /\ ~Req.Enlarge /\ Req.Rotate = 0
        /\ SizeRequested) => o.Force
    /\ (/\ Succeeded /\ NoModeRequested /\ ~Req.Enlarge /\ Req.Rotate = 0
        /\ SizeRequested) => modes = {"force"}

\* a width-only request with no mode ends with force as the one mode
C6_Witness ==
    /\ Succeeded /\ NoModeRequested /\ ~Req.Enlarge /\ Req.Rotate = 0
    /\ Req.Width > 0 /\ Req.Height = 0
    /\ modes = {"force"} /\ o.Force

\* C8: the width and height resolved by imageCalculations are in
\* 1..MAX_SIZE, and no call with a larger dimension returns an output.
C8_ResolvedSize ==
    /\ pc = "guard" => o.Width \in 1..MAX_SIZE /\ o.Height \in 1..MAX_SIZE
    /\ Succeeded => /\ o.Width <= MAX_SIZE /\ o.Height <= MAX_SIZE
                    /\ imgW <= MAX_SIZE /\ imgH <= MAX_SIZE

NearestLowerCapped(a) == Min(90 * (a \div 90), 270)

\* C9 as claimed: for any requested angle getAngle gives the nearest lower
\* multiple of 90 capped at 270, one of 0, 90, 180, 270, and the engine's
\* rotate is only called with such an angle.
C9_GetAngle ==
    /\ Done => /\ getAngle(Req.Rotate) = NearestLowerCapped(Req.Rotate)
               /\ getAngle(Req.Rotate) \in {0, 90, 180, 270}
    /\ Range(rotArg) \subseteq {0, 90, 180, 270}

\* C9 amended: the same for any requested angle that is not negative.
C9_GetAngleNonNegative ==
    /\ Req.Rotate >= 0 =>
          /\ getAngle(Req.Rotate) = NearestLowerCapped(Req.Rotate)
          /\ getAngle(Req.Rotate) \in {0, 90, 180, 270}
    /\ getAngle(370) = 270 /\ getAngle(45) = 0 /\ getAngle(180) = 180
    /\ Range(rotArg) \subseteq {0, 90, 180, 270}

\* a requested angle of 370 reaches the engine as 270
C9_Witness == Req.Rotate = 370 /\ rotArg = <<270>> /\ Succeeded

ExpectedShrink(f, windowSize) ==
    IF f[1] >= 2 * f[2] /\ windowSize > 3
      THEN Max((3 * f[1]) \div (windowSize * f[2]), 1)
      ELSE Max(f[1] \div f[2], 1)

\* C10: the integer pre-shrink factor is at least 1 wherever Resize holds
\* one: as calculateShrink returns it (max(floor(factor*3/windowSize), 1)
\* for factor >= 2 and a window above 3, else max(floor(factor), 1)), as the
\* no-enlarge guard sets it and as it is recomputed after shrink-on-load.
C10_ShrinkAtLeastOne ==
    /\ Calculated => shrink >= 1
    /\ pc = "guard" =>
          shrink = ExpectedShrink(factor, vipsWindowSize(o.Interpolator))
    /\ calculateShrink(Rat(1, 1), "bilinear") = 1
    /\ calculateShrink(Rat(1, 1), "bicubic") = 1
    /\ calculateShrink(Rat(8, 1), "bicubic") = 6

\* shrink recomputed to 1 after shrink-on-load of a downscale
C10_Witness ==
    /\ pc = "zoom" /\ "jpegload" \in Range(ops) /\ shrink = 1
    /\ RLess(Rat(1, 1), factor)


\* The place of an engine operation in the pipeline: shrink-on-load, zoom,
\* rotate/flip, scale (shrink, affine, then crop/embed/extract), blur,
\* watermark, encode (colour space conversion and save)
Rank(op) ==
    CASE op = "read"        -> 0
      [] op = "jpegload"    -> 1
      [] op = "zoom"        -> 2
      [] op = "rotate"      -> 3
      [] op = "flip"        -> 3
      [] op = "shrink"      -> 4
      [] op = "affine"      -> 5
      [] op = "extract"     -> 6
      [] op = "embed"       -> 6
      [] op = "gaussblur"   -> 7
      [] op = "watermark"   -> 8
      [] op = "colourspace" -> 9
      [] op = "save"        -> 10

\* C11: the engine operations of a call occur in the order shrink-on-load,
\* zoom, rotate/flip, shrink then affine with crop/embed/extract, blur,
\* watermark, encode: each at most once and none after a later one; the
\* defaults are filled and the mode is normalized before the first of them;
\* and the encode is the last operation of every call that succeeds.
C11_StageOrder ==
    /\ \A i, j \in DOMAIN ops :
          i < j => Rank(ops[i]) <= Rank(ops[j]) /\ ops[i] # ops[j]
    /\ ~({"extract", "embed"} \subseteq Range(ops))
    /\ (\E i \in DOMAIN ops : Rank(ops[i]) >= 1) =>
          /\ o.Type # "UNKNOWN"
          /\ o.Force = normalizeOperation(Req).Force
    /\ Succeeded => Last(ops) = "save"

\* a JPEG goes through every stage of the pipeline and is encoded
C11_Witness ==
    /\ Succeeded
    /\ ops = <<"read", "jpegload", "zoom", "rotate", "flip", "affine",
               "extract", "watermark", "save">>

\* Initialize and Shutdown on their own, no Resize call in progress
InitLib == InitOf({<<DefaultInput, DefaultOptions>>})

SpecLib == InitLib /\ [][NextLib]_vars

====
